---- MODULE Spec2Model ----
(***************************************************************************)
(* Model of app.py (gold monitor V3.3): fetch_data and the page script     *)
(* that computes, per metric, the trailing 30-observation change and the   *)
(* chart's Y-axis range.                                                   *)
(*                                                                         *)
(* Numbers.  The script computes in float64 (pandas / numpy scalars).      *)
(* A number is modelled as an extended rational <<n, d>> with d >= 0,      *)
(* normalised: d > 0 and gcd(n, d) = 1 for a finite value, <<1, 0>> for    *)
(* +inf, <<-1, 0>> for -inf and <<0, 0>> for NaN, which is what numpy      *)
(* yields for x/0 and 0/0 (a warning, not an exception).  Rounding of      *)
(* float64 is not modelled: arithmetic is exact.                           *)
(*                                                                         *)
(* Names.  The metric names of the source are written in ASCII:            *)
(*   nominal_rate (DGS10), inflation_exp (T10YIE), real_rate (DFII10),     *)
(*   gold (GC=F), dollar_index (DX-Y.NYB), vix (^VIX).                     *)
(***************************************************************************)
EXTENDS Integers, Sequences, FiniteSets, TLC

LookbackDays == 30

\* Bounds of the model.
MaxLen == 32
MaxShort == 2
MaxFetchLen == 2

----------------------------------------------------------------------------
(* float64 arithmetic as extended rationals *)

Abs(x) == IF x < 0 THEN -x ELSE x

Sign(x) == IF x < 0 THEN -1 ELSE IF x > 0 THEN 1 ELSE 0

RECURSIVE GCD(_, _)
GCD(a, b) == IF b = 0 THEN a ELSE GCD(b, a % b)

Norm(n, d) ==
    IF d = 0 THEN <<Sign(n), 0>>
    ELSE LET g == GCD(Abs(n), Abs(d))
         IN  <<(Sign(d) * n) \div g, Abs(d) \div g>>

Num(v) == <<v, 1>>
Zero == Num(0)
NaN == <<0, 0>>

Sub(a, b) == Norm(a[1] * b[2] - b[1] * a[2], a[2] * b[2])
Add(a, b) == Norm(a[1] * b[2] + b[1] * a[2], a[2] * b[2])
Mul(a, b) == Norm(a[1] * b[1], a[2] * b[2])
Div(a, b) == Norm(a[1] * b[2] * Sign(b[1]), a[2] * Abs(b[1]))
\* a < b; FALSE when either side is NaN, as in IEEE 754.
Less(a, b) == a[1] * b[2] < b[1] * a[2]

\* A Python name that has not been assigned yet.
Unbound == <<>>

----------------------------------------------------------------------------
(* pandas Series: a sequence of numbers, position = row of the index *)

Min(a, b) == IF a < b THEN a ELSE b

RECURSIVE Dropna(_)
Dropna(s) ==
    IF s = <<>> THEN <<>>
    ELSE IF Head(s) = NaN THEN Dropna(Tail(s))
    ELSE <<Head(s)>> \o Dropna(Tail(s))

\* series.iloc[-k], k >= 1
IlocFromEnd(series, k) == series[Len(series) - k + 1]

RECURSIVE SeriesMin(_)
SeriesMin(s) ==
    IF Len(s) = 1 THEN s[1]
    ELSE LET m == SeriesMin(Tail(s)) IN IF Less(s[1], m) THEN s[1] ELSE m

RECURSIVE SeriesMax(_)
SeriesMax(s) ==
    IF Len(s) = 1 THEN s[1]
    ELSE LET m == SeriesMax(Tail(s)) IN IF Less(m, s[1]) THEN s[1] ELSE m

\* pd.DataFrame(data): the columns are aligned on the union of the indexes,
\* rows a series lacks are NaN.
\* An entry of the dict `data`: a Series, or the scalar that squeeze() makes of
\* a one-row Close column (s then holds that one value).
AsSeries(s) == [scalar |-> FALSE, s |-> s]

\* df['Close'].squeeze()
Squeeze(s) == [scalar |-> Len(s) = 1, s |-> s]

AllScalars(d) == \A c \in DOMAIN d : d[c].scalar

\* pd.DataFrame(data): the columns are aligned on the union of the indexes of
\* the Series, rows a Series lacks are NaN, a scalar fills every row.  With
\* nothing but scalars there is no index and the constructor raises.
MaxRows(d) ==
    LET lens == {Len(d[c].s) : c \in {x \in DOMAIN d : ~ d[x].scalar}}
    IN  CHOOSE m \in lens : \A l \in lens : l <= m

Pad(s, rows) == [k \in 1..rows |-> IF k <= Len(s) THEN s[k] ELSE NaN]

DataFrame(d) ==
    [c \in DOMAIN d |->
        IF d[c].scalar THEN [k \in 1..MaxRows(d) |-> d[c].s[1]]
        ELSE Pad(d[c].s, MaxRows(d))]

EmptyFrame == [c \in {} |-> <<>>]

IsEmptyFrame(frame) == DOMAIN frame = {}

----------------------------------------------------------------------------
(* the metric lists of the script *)

FredSeries == <<"nominal_rate", "inflation_exp", "real_rate">>

Tickers == <<"gold", "dollar_index", "vix">>

core_metrics_data == <<"gold", "dollar_index", "real_rate", "vix">>

metrics ==
    <<"gold", "dollar_index", "vix", "real_rate", "inflation_exp", "nominal_rate">>

Names == {metrics[k] : k \in 1..Len(metrics)}

----------------------------------------------------------------------------
(* the change computation and the axis range, as the loops compute them *)

\* variant: the guard lets a series without points through
HasPoints_Any(series) == Len(series) >= 0

\* len(series) > 0
HasPoints(series) == Len(series) > 0

\* variant: the cap at 30 is left out
DaysBack_NoCap(series) == Len(series) - 1

\* days_back = min(30, len(series) - 1)
DaysBack(series) == Min(LookbackDays, Len(series) - 1)

\* variant: iloc[-days_back], one position late
Previous_OffByOne(series, db) == IlocFromEnd(series, db)

\* previous = series.iloc[-days_back-1]
Previous(series, db) == IlocFromEnd(series, db + 1)

\* change_pct = ((current - previous) / previous * 100) if previous != 0 else 0
CorePercent(cur, prev) ==
    IF prev # Zero THEN Mul(Div(Sub(cur, prev), prev), Num(100)) ELSE Zero

\* variant: the division is not guarded
CardPercent_NoGuard(chg, prev) == Mul(Div(chg, prev), Num(100))

\* change_pct = (change / previous * 100) if previous != 0 else 0
CardPercent(chg, prev) ==
    IF prev # Zero THEN Mul(Div(chg, prev), Num(100)) ELSE Zero

\* variant: previous is read whatever days_back is
BaseValue_Stale(db, prev, series) == prev

\* base_value = previous if days_back > 0 else series.iloc[0]
BaseValue(db, prev, series) == IF db > 0 THEN prev ELSE series[1]

\* variant: the two thresholds are exchanged
SmartYAxis_SwappedTiers(dmin, dmax, drange) ==
    IF Less(Div(drange, dmin), Norm(15, 100))
    THEN LET margin == Mul(drange, Num(2))
         IN  <<Sub(dmin, margin), Add(dmax, margin)>>
    ELSE IF Less(Div(drange, dmin), Norm(5, 100))
    THEN LET margin == Mul(drange, Norm(1, 2))
         IN  <<Sub(dmin, margin), Add(dmax, margin)>>
    ELSE <<Zero, Mul(dmax, Norm(11, 10))>>

\* variant: a minimum that is not positive goes to the zero-based tier
SmartYAxis_ZeroBasedIfNonPositive(dmin, dmax, drange) ==
    IF (~ Less(dmin, Zero)) /\ dmin # Zero /\ Less(Div(drange, dmin), Norm(5, 100))
    THEN LET margin == Mul(drange, Num(2))
         IN  <<Sub(dmin, margin), Add(dmax, margin)>>
    ELSE IF (~ Less(dmin, Zero)) /\ dmin # Zero
            /\ Less(Div(drange, dmin), Norm(15, 100))
    THEN LET margin == Mul(drange, Norm(1, 2))
         IN  <<Sub(dmin, margin), Add(dmax, margin)>>
    ELSE <<Zero, Mul(dmax, Norm(11, 10))>>

\* variant: the first tier narrows the range instead of widening it
SmartYAxis_NarrowMargin(dmin, dmax, drange) ==
    IF Less(Div(drange, dmin), Norm(5, 100))
    THEN LET margin == Mul(drange, Num(2))
         IN  <<Add(dmin, margin), Sub(dmax, margin)>>
    ELSE IF Less(Div(drange, dmin), Norm(15, 100))
    THEN LET margin == Mul(drange, Norm(1, 2))
         IN  <<Sub(dmin, margin), Add(dmax, margin)>>
    ELSE <<Zero, Mul(dmax, Norm(11, 10))>>

\* the three tiers on data_range / data_min: the pair <<y_min, y_max>>
SmartYAxis(dmin, dmax, drange) ==
    IF Less(Div(drange, dmin), Norm(5, 100))
    THEN LET margin == Mul(drange, Num(2))
         IN  <<Sub(dmin, margin), Add(dmax, margin)>>
    ELSE IF Less(Div(drange, dmin), Norm(15, 100))
    THEN LET margin == Mul(drange, Norm(1, 2))
         IN  <<Sub(dmin, margin), Add(dmax, margin)>>
    ELSE <<Zero, Mul(dmax, Norm(11, 10))>>

----------------------------------------------------------------------------
(* inputs *)

\* a + b * k for k = 0 .. n - 1
Ramp(n, a, b) == [k \in 1..n |-> Num(a + b * (k - 1))]

\* What a provider call can return in the full run: a series that is not
\* empty (it may hold only missing values).
FetchPool ==
    { <<NaN>>, <<Num(7)>> }
        \cup {Ramp(n, -5, 2) : n \in 2..MaxFetchLen}

\* Outcomes of fred.get_series / yf.download.
Outcomes ==
    {[kind |-> "raise", s |-> <<>>], [kind |-> "empty", s |-> <<>>]}
        \cup {[kind |-> "ok", s |-> s] : s \in FetchPool}

RampStart == {-5, 0, 100, 1000}
RampStep == {-1, 0, 1, 2}

ShortVals ==
    {Num(-5), Num(-3), Zero, Num(50), Num(100), Num(108), Norm(1001, 10), NaN}

RECURSIVE SeqsUpTo(_, _)
SeqsUpTo(S, n) ==
    IF n = 0 THEN {<<>>}
    ELSE LET shorter == SeqsUpTo(S, n - 1)
         IN  shorter \cup {Append(s, v) : s \in shorter, v \in S}

\* The series of the single-table runs.
Family ==
    (SeqsUpTo(ShortVals, MaxShort) \ {<<>>})
        \cup {Ramp(n, a, b) : n \in 1..MaxLen, a \in RampStart, b \in RampStep}
        \cup {Append(Ramp(n, a, b), NaN) :
                n \in 1..MaxLen, a \in RampStart, b \in RampStep}

----------------------------------------------------------------------------
(* state *)

VARIABLES
    pc,          \* where the run is
    i,           \* 1-based position in the list the current loop walks
    data,        \* fetch_data: name -> series retrieved
    errors,      \* fetch_data: the error messages, by what they are about
    outcome,     \* history: name -> how its retrieval ended (raise, empty, ok)
    retrieved,   \* history: name -> the non-empty series its provider returned
    df,          \* the table fetch_data returned
    current, days_back, previous, change, change_pct, base_value,
    data_min, data_max, data_range, y_min, y_max,   \* the script's globals
    coreOut,     \* name -> what the core panel showed for it
    cardOut      \* name -> what the detail card and its chart showed for it

fetchVars == <<data, errors, outcome, retrieved>>
locals == <<current, days_back, previous, change, change_pct, base_value,
            data_min, data_max, data_range, y_min, y_max>>
cardLocals == <<change, base_value, data_min, data_max, data_range, y_min, y_max>>
outs == <<coreOut, cardOut>>
vars == <<pc, i, data, errors, outcome, retrieved, df, current, days_back, previous, change,
          change_pct, base_value, data_min, data_max, data_range, y_min, y_max,
          coreOut, cardOut>>

NoLocals ==
    /\ current = Unbound /\ days_back = Unbound /\ previous = Unbound
    /\ change = Unbound /\ change_pct = Unbound /\ base_value = Unbound
    /\ data_min = Unbound /\ data_max = Unbound /\ data_range = Unbound
    /\ y_min = Unbound /\ y_max = Unbound
    /\ coreOut = EmptyFrame /\ cardOut = EmptyFrame

Init ==
    /\ pc = "fred_init"
    /\ i = 1
    /\ data = EmptyFrame
    /\ errors = <<>>
    /\ outcome = EmptyFrame
    /\ retrieved = EmptyFrame
    /\ df = EmptyFrame
    /\ NoLocals

----------------------------------------------------------------------------
(* fetch_data *)

\* variant: the message is not recorded
AppendError_Dropped(errs, about) == errs

\* errors.append(f"{name}: {str(e)}")
AppendError(errs, about) == Append(errs, about)

\* fred = Fred(api_key=fred_key)
FredInitOk ==
    /\ pc = "fred_init"
    /\ pc' = "fred_loop"
    /\ UNCHANGED <<i, fetchVars, df, locals, outs>>

\* the constructor raises: the outer except, no FRED series is requested
FredInitRaise ==
    /\ pc = "fred_init"
    /\ errors' = AppendError(errors, "FRED")
    /\ pc' = "yahoo_loop"
    /\ UNCHANGED <<i, data, outcome, retrieved, df, locals, outs>>

\* one iteration of `for code, name in series.items()`:
\* s = fred.get_series(code, start); data[name] = s unless s is None or empty
FredGetSeries ==
    /\ pc = "fred_loop"
    /\ \E o \in Outcomes :
        LET name == FredSeries[i] IN
        /\ data' = IF o.kind = "ok" THEN data @@ (name :> AsSeries(o.s)) ELSE data
        /\ retrieved' = IF o.kind = "ok" THEN retrieved @@ (name :> o.s)
                        ELSE retrieved
        /\ errors' = IF o.kind = "raise" THEN AppendError(errors, name) ELSE errors
        /\ outcome' = outcome @@ (name :> o.kind)
    /\ i' = IF i < Len(FredSeries) THEN i + 1 ELSE 1
    /\ pc' = IF i < Len(FredSeries) THEN "fred_loop" ELSE "yahoo_loop"
    /\ UNCHANGED <<df, locals, outs>>

\* one iteration of `for ticker, name in tickers.items()`:
\* df = yf.download(...); data[name] = df['Close'].squeeze() unless df is empty
YahooDownload ==
    /\ pc = "yahoo_loop"
    /\ \E o \in Outcomes :
        LET name == Tickers[i] IN
        /\ data' = IF o.kind = "ok" THEN data @@ (name :> Squeeze(o.s)) ELSE data
        /\ retrieved' = IF o.kind = "ok" THEN retrieved @@ (name :> o.s)
                        ELSE retrieved
        /\ errors' = IF o.kind = "raise" THEN AppendError(errors, name) ELSE errors
        /\ outcome' = outcome @@ (name :> o.kind)
    /\ i' = IF i < Len(Tickers) THEN i + 1 ELSE 1
    /\ pc' = IF i < Len(Tickers) THEN "yahoo_loop" ELSE "return"
    /\ UNCHANGED <<df, locals, outs>>

\* if not data: return pd.DataFrame(), errors
ReturnNoData ==
    /\ pc = "return"
    /\ data = EmptyFrame
    /\ df' = EmptyFrame
    /\ pc' = "page"
    /\ UNCHANGED <<i, fetchVars, locals, outs>>

\* df = pd.DataFrame(data); return df, errors
ReturnMerged ==
    /\ pc = "return"
    /\ data # EmptyFrame
    /\ ~ AllScalars(data)
    /\ df' = DataFrame(data)
    /\ pc' = "page"
    /\ UNCHANGED <<i, fetchVars, locals, outs>>

\* pd.DataFrame(data) raises (data holds scalars only): the merge error is
\* reported and the table returned is empty
ReturnMergeError ==
    /\ pc = "return"
    /\ data # EmptyFrame
    /\ AllScalars(data)
    /\ errors' = AppendError(errors, "merge")
    /\ df' = EmptyFrame
    /\ pc' = "page"
    /\ UNCHANGED <<i, data, outcome, retrieved, locals, outs>>

FetchNext ==
    \/ FredInitOk
    \/ FredInitRaise
    \/ FredGetSeries
    \/ YahooDownload
    \/ ReturnNoData
    \/ ReturnMerged
    \/ ReturnMergeError

----------------------------------------------------------------------------
(* the page script *)

\* if df.empty: st.error(...); st.stop()
PageStop ==
    /\ pc = "page"
    /\ IsEmptyFrame(df)
    /\ pc' = "stopped"
    /\ UNCHANGED <<i, fetchVars, df, locals, outs>>

PageStart ==
    /\ pc = "page"
    /\ ~ IsEmptyFrame(df)
    /\ pc' = "core"
    /\ i' = 1
    /\ UNCHANGED <<fetchVars, df, locals, outs>>

\* the loop variable moves on; after the last item the next section starts
Advance(loop, list, nextPc) ==
    /\ i' = IF i < Len(list) THEN i + 1 ELSE 1
    /\ pc' = IF i < Len(list) THEN loop ELSE nextPc

\* series.iloc[-1] on a series without points raises IndexError
Crash ==
    /\ pc' = "crashed"
    /\ UNCHANGED <<i, locals, outs>>

\* a core panel item: the column is there and has points
CoreCompute ==
    /\ pc = "core"
    /\ core_metrics_data[i] \in DOMAIN df
    /\ LET name == core_metrics_data[i]
           series == Dropna(df[name])
       IN  /\ HasPoints(series)
           /\ IF Len(series) = 0 THEN Crash
              ELSE /\ current' = IlocFromEnd(series, 1)
                   /\ days_back' = DaysBack(series)
                   /\ IF days_back' > 0
                      THEN /\ previous' = Previous(series, days_back')
                           /\ change_pct' = CorePercent(current', previous')
                      ELSE /\ previous' = previous
                           /\ change_pct' = Zero
                   /\ coreOut' = coreOut @@
                        (name :> [n |-> Len(series), current |-> current',
                                  days_back |-> days_back',
                                  previous |-> previous',
                                  change_pct |-> change_pct'])
                   /\ Advance("core", core_metrics_data, "detail")
                   /\ UNCHANGED <<cardLocals, cardOut>>
    /\ UNCHANGED <<fetchVars, df>>

\* a core panel item whose column is absent or holds no point: nothing is shown
CoreSkip ==
    /\ pc = "core"
    /\ \/ core_metrics_data[i] \notin DOMAIN df
       \/ /\ core_metrics_data[i] \in DOMAIN df
          /\ ~ HasPoints(Dropna(df[core_metrics_data[i]]))
    /\ Advance("core", core_metrics_data, "detail")
    /\ UNCHANGED <<fetchVars, df, locals, outs>>

\* a detail card and its chart
DetailCompute ==
    /\ pc = "detail"
    /\ metrics[i] \in DOMAIN df
    /\ LET name == metrics[i]
           series == Dropna(df[name])
       IN  /\ HasPoints(series)
           /\ IF Len(series) = 0 THEN Crash
              ELSE /\ current' = IlocFromEnd(series, 1)
                   /\ days_back' = DaysBack(series)
                   /\ IF days_back' > 0
                      THEN /\ previous' = Previous(series, days_back')
                           /\ change' = Sub(current', previous')
                           /\ change_pct' = CardPercent(change', previous')
                      ELSE /\ previous' = previous
                           /\ change' = change
                           /\ change_pct' = Zero
                   /\ base_value' = BaseValue(days_back', previous', series)
                   /\ data_min' = SeriesMin(series)
                   /\ data_max' = SeriesMax(series)
                   /\ data_range' = Sub(data_max', data_min')
                   /\ y_min' = SmartYAxis(data_min', data_max', data_range')[1]
                   /\ y_max' = SmartYAxis(data_min', data_max', data_range')[2]
                   /\ cardOut' = cardOut @@
                        (name :> [n |-> Len(series), current |-> current',
                                  days_back |-> days_back',
                                  previous |-> previous',
                                  change |-> change',
                                  change_pct |-> change_pct',
                                  base_value |-> base_value',
                                  data_min |-> data_min',
                                  data_max |-> data_max',
                                  y_min |-> y_min', y_max |-> y_max'])
                   /\ Advance("detail", metrics, "done")
                   /\ UNCHANGED coreOut
    /\ UNCHANGED <<fetchVars, df>>

\* if name in df.columns fails, or len(series) == 0: continue
DetailSkip ==
    /\ pc = "detail"
    /\ \/ metrics[i] \notin DOMAIN df
       \/ /\ metrics[i] \in DOMAIN df
          /\ ~ HasPoints(Dropna(df[metrics[i]]))
    /\ Advance("detail", metrics, "done")
    /\ UNCHANGED <<fetchVars, df, locals, outs>>

PageNext ==
    \/ PageStop
    \/ PageStart
    \/ CoreCompute
    \/ CoreSkip
    \/ DetailCompute
    \/ DetailSkip

Next == FetchNext \/ PageNext

Spec == Init /\ [][Next]_vars

\* A run of the page on a table of one column drawn from Family, or on the
\* empty table.
InitCalc ==
    /\ pc = "page"
    /\ i = 1
    /\ errors = <<>>
    /\ outcome = EmptyFrame
    /\ \/ data = EmptyFrame
       \/ \E k \in 1..Len(FredSeries), s \in Family :
             data = (FredSeries[k] :> AsSeries(s))
       \/ \E k \in 1..Len(Tickers), s \in Family :
             /\ data = (Tickers[k] :> Squeeze(s))
             /\ ~ AllScalars(data)
    /\ retrieved = [c \in DOMAIN data |-> data[c].s]
    /\ df = IF data = EmptyFrame THEN EmptyFrame ELSE DataFrame(data)
    /\ NoLocals

SpecCalc == InitCalc /\ [][PageNext]_vars

----------------------------------------------------------------------------
(* properties *)

\* the non-missing points of a metric's column
PointsOf(name) == Dropna(df[name])

\* 1-based position of the reference point of a series of n >= 2 points:
\* 0-based position n - 1 - lookback, with lookback = min(30, n - 1)
RefPos(n) == IF n >= 31 THEN n - 30 ELSE 1

Elems(s) == {s[k] : k \in 1..Len(s)}

IsMinOf(m, s) == m \in Elems(s) /\ \A e \in Elems(s) : ~ Less(e, m)
IsMaxOf(m, s) == m \in Elems(s) /\ \A e \in Elems(s) : ~ Less(m, e)

\* C1: for a series of n >= 1 non-missing points the lookback count is
\* min(30, n - 1): 30 when n >= 31, n - 1 when n <= 30; with n = 1 it is 0 and
\* no reference value is read from the series (the name previous stays
\* unassigned).  Both in the core panel and in the detail card.
C1_LookbackCount ==
    /\ \A name \in DOMAIN coreOut :
        LET n == Len(PointsOf(name)) o == coreOut[name] IN
        /\ n >= 31 => o.days_back = 30
        /\ n <= 30 => o.days_back = n - 1
        /\ n = 1 => o.days_back = 0 /\ o.previous = Unbound
    /\ \A name \in DOMAIN cardOut :
        LET n == Len(PointsOf(name)) o == cardOut[name] IN
        /\ n >= 31 => o.days_back = 30
        /\ n <= 30 => o.days_back = n - 1
        /\ n = 1 => o.days_back = 0 /\ o.previous = Unbound

\* a series longer than the lookback window has been processed by both loops
C1_Witness ==
    \E name \in DOMAIN coreOut \cap DOMAIN cardOut :
        /\ Len(PointsOf(name)) = 32
        /\ coreOut[name].days_back = 30
        /\ cardOut[name].days_back = 30

\* C2: for a series of n >= 2 points the reference value is the element at
\* 0-based position n - 1 - lookback (the first element when n = 31), the
\* absolute change is latest - reference, and for every nonzero reference the
\* percent change is change / reference * 100; reference -5 and latest -3
\* give change 2 and percent change -40.
C2_ReferenceAndChange ==
    /\ \A name \in DOMAIN coreOut :
        LET s == PointsOf(name) n == Len(s) o == coreOut[name] IN
        n >= 2 =>
            /\ o.current = s[n]
            /\ o.previous = s[RefPos(n)]
            /\ o.previous # Zero =>
                 Mul(o.change_pct, o.previous) =
                    Mul(Sub(o.current, o.previous), Num(100))
    /\ \A name \in DOMAIN cardOut :
        LET s == PointsOf(name) n == Len(s) o == cardOut[name] IN
        n >= 2 =>
            /\ o.current = s[n]
            /\ o.previous = s[RefPos(n)]
            /\ n = 31 => o.previous = s[1]
            /\ Add(o.previous, o.change) = o.current
            /\ o.previous # Zero =>
                 Mul(o.change_pct, o.previous) = Mul(o.change, Num(100))
            /\ (o.previous = Num(-5) /\ o.current = Num(-3)) =>
                 (o.change = Num(2) /\ o.change_pct = Num(-40))

C2_Witness ==
    \E name \in DOMAIN cardOut :
        /\ PointsOf(name) = <<Num(-5), Num(-3)>>
        /\ cardOut[name].change = Num(2)
        /\ cardOut[name].change_pct = Num(-40)

\* C3: the percent change is exactly 0, and the run does not fail, whenever
\* the reference value is 0 or the series has one point, in the core panel
\* and in the detail card.
C3_ZeroReference ==
    /\ pc # "crashed"
    /\ \A name \in DOMAIN coreOut :
        LET s == PointsOf(name) n == Len(s) IN
        (n = 1 \/ s[RefPos(n)] = Zero) => coreOut[name].change_pct = Zero
    /\ \A name \in DOMAIN cardOut :
        LET s == PointsOf(name) n == Len(s) IN
        (n = 1 \/ s[RefPos(n)] = Zero) => cardOut[name].change_pct = Zero

C3_Witness ==
    \E name \in DOMAIN coreOut \cap DOMAIN cardOut :
        LET s == PointsOf(name) IN
        /\ Len(s) >= 2
        /\ s[RefPos(Len(s))] = Zero
        /\ s[Len(s)] # Zero
        /\ coreOut[name].change_pct = Zero
        /\ cardOut[name].change_pct = Zero

\* the range the three tiers give for a positive minimum
TierRange(dmin, dmax) ==
    LET r == Sub(dmax, dmin) IN
    IF Less(Mul(r, Num(20)), dmin)
    THEN <<Sub(dmin, Mul(Num(2), r)), Add(dmax, Mul(Num(2), r))>>
    ELSE IF Less(Mul(r, Num(20)), Mul(dmin, Num(3)))
    THEN <<Sub(dmin, Mul(Norm(1, 2), r)), Add(dmax, Mul(Norm(1, 2), r))>>
    ELSE <<Zero, Mul(Norm(11, 10), dmax)>>

\* C4: for a series with data_min > 0 the Y-axis range follows the three
\* tiers on ratio = data_range / data_min (below 0.05: margin 2 * range; from
\* 0.05 and below 0.15: margin 0.5 * range; from 0.15: [0, 1.1 * data_max]),
\* with min and max over the whole series; [100, 108] gives [96, 112] and
\* [50, 100] gives [0, 110].
C4_AxisTiers ==
    \A name \in DOMAIN cardOut :
        LET s == PointsOf(name) o == cardOut[name] IN
        /\ IsMinOf(o.data_min, s)
        /\ IsMaxOf(o.data_max, s)
        /\ Less(Zero, o.data_min) =>
             <<o.y_min, o.y_max>> = TierRange(o.data_min, o.data_max)
        /\ s = <<Num(100), Num(108)>> => <<o.y_min, o.y_max>> = <<Num(96), Num(112)>>
        /\ s = <<Num(50), Num(100)>> => <<o.y_min, o.y_max>> = <<Zero, Num(110)>>

C4_Witness ==
    \E name \in DOMAIN cardOut :
        /\ PointsOf(name) = <<Num(100), Num(108)>>
        /\ cardOut[name].y_min = Num(96)
        /\ cardOut[name].y_max = Num(112)

\* C5 as claimed: for a series with data_min <= 0 the Y-axis range is the
\* zero-based range [0, 1.1 * data_max], and the run does not fail.
C5_Original ==
    /\ pc # "crashed"
    /\ \A name \in DOMAIN cardOut :
        LET o == cardOut[name] IN
        ~ Less(Zero, o.data_min) =>
            (o.y_min = Zero /\ o.y_max = Mul(Norm(11, 10), o.data_max))

\* C5 as the script behaves: with data_min = 0 the range is [0, 1.1 * data_max];
\* with data_min < 0 the ratio is not positive, so below 0.05, and the range is
\* [data_min - 2 * range, data_max + 2 * range]; the run does not fail.
C5_NonPositiveMin ==
    /\ pc # "crashed"
    /\ \A name \in DOMAIN cardOut :
        LET o == cardOut[name] r == Sub(o.data_max, o.data_min) IN
        /\ o.data_min = Zero =>
             (o.y_min = Zero /\ o.y_max = Mul(Norm(11, 10), o.data_max))
        /\ Less(o.data_min, Zero) =>
             /\ o.y_min = Sub(o.data_min, Mul(Num(2), r))
             /\ o.y_max = Add(o.data_max, Mul(Num(2), r))

C5_Witness ==
    \E name \in DOMAIN cardOut :
        /\ PointsOf(name) = <<Num(-5), Num(-3)>>
        /\ cardOut[name].y_min = Num(-9)
        /\ cardOut[name].y_max = Num(1)

\* C10: the Y-axis range contains every point of the series.
C10_RangeContainsData ==
    \A name \in DOMAIN cardOut :
        \A e \in Elems(PointsOf(name)) :
            /\ ~ Less(e, cardOut[name].y_min)
            /\ ~ Less(cardOut[name].y_max, e)

C10_Witness ==
    \E name \in DOMAIN cardOut :
        /\ Less(cardOut[name].data_min, Zero)
        /\ Less(Zero, cardOut[name].data_max)
        /\ Less(cardOut[name].y_min, cardOut[name].data_min)
        /\ Less(cardOut[name].data_max, cardOut[name].y_max)

\* fetch_data has returned
Returned == pc \notin {"fred_init", "fred_loop", "yahoo_loop", "return"}

Raised == {name \in DOMAIN outcome : outcome[name] = "raise"}

Count(errs, about) == Cardinality({k \in 1..Len(errs) : errs[k] = about})

TickerNames == {Tickers[k] : k \in 1..Len(Tickers)}
FredNames == {FredSeries[k] : k \in 1..Len(FredSeries)}

\* C6 as claimed: whatever the outcomes of the six retrievals, every series
\* retrieved successfully and non-empty is in the returned table, and every
\* series whose retrieval raised contributes one error message.
C6_Original ==
    Returned =>
        /\ \A name \in DOMAIN retrieved : name \in DOMAIN df
        /\ \A name \in Raised : Count(errors, name) = 1

\* C6 as the function behaves: a failure of one retrieval does not abort the
\* others (the three tickers are always requested, the three FRED codes
\* whenever the client was constructed), every series retrieved successfully
\* and non-empty is collected in data, every series whose retrieval raised
\* contributes exactly one error message, and the returned table holds every
\* collected series (with its own points, when it is a Series) unless the
\* merge raises, which it does when data holds scalars only; then the table
\* is empty and one merge error message is added.
C6_IndependentRetrieval ==
    /\ DOMAIN data = DOMAIN retrieved
    /\ Returned =>
        /\ TickerNames \subseteq DOMAIN outcome
        /\ Count(errors, "FRED") = 0 => FredNames \subseteq DOMAIN outcome
        /\ \A name \in DOMAIN outcome :
             outcome[name] = "ok" <=> name \in DOMAIN retrieved
        /\ \A name \in Raised : Count(errors, name) = 1
        /\ ~ AllScalars(data) =>
             \A name \in DOMAIN retrieved :
                /\ name \in DOMAIN df
                /\ ~ data[name].scalar =>
                     PointsOf(name) = Dropna(retrieved[name])
        /\ (data # EmptyFrame /\ AllScalars(data)) =>
             (IsEmptyFrame(df) /\ Count(errors, "merge") = 1)

\* one retrieval raised, a later one succeeded and is in the returned table
C6_Witness ==
    /\ Returned
    /\ "nominal_rate" \in Raised
    /\ "gold" \in Raised
    /\ "vix" \in DOMAIN retrieved
    /\ "vix" \in DOMAIN df
    /\ Len(errors) = 2

\* C7: whenever fetch_data obtains no series at all it returns an empty table
\* and a non-empty error list.
C7_EmptyResultHasErrors ==
    (Returned /\ data = EmptyFrame) => (IsEmptyFrame(df) /\ Len(errors) > 0)

\* C8: the change computation and the axis range are never computed on a
\* series without points: an empty table stops the run before any
\* computation, a metric whose column is absent or entirely missing is skipped,
\* and every other metric with at least one point is processed.
C8_NoEmptySeriesComputed ==
    /\ pc # "crashed"
    /\ \A name \in DOMAIN coreOut \cup DOMAIN cardOut :
         name \in DOMAIN df /\ Len(PointsOf(name)) > 0
    /\ (Returned /\ IsEmptyFrame(df)) =>
         (pc \in {"page", "stopped"} /\ coreOut = EmptyFrame /\ cardOut = EmptyFrame)
    /\ pc \in {"detail", "done"} =>
         \A k \in 1..Len(core_metrics_data) :
            LET name == core_metrics_data[k] IN
            (name \in DOMAIN df /\ Len(PointsOf(name)) > 0) => name \in DOMAIN coreOut
    /\ pc = "done" =>
         \A name \in Names :
            (name \in DOMAIN df /\ Len(PointsOf(name)) > 0) => name \in DOMAIN cardOut

\* a finished run with an absent column, a column without points and a card
C8_Witness ==
    /\ pc = "done"
    /\ \E a \in Names : a \notin DOMAIN df
    /\ \E b \in DOMAIN df : Len(PointsOf(b)) = 0
    /\ \E c \in DOMAIN cardOut : c \in DOMAIN coreOut

CardShown(o) == <<o.current, o.change_pct, o.base_value, o.y_min, o.y_max>>
CoreShown(o) == <<o.current, o.change_pct>>

\* C9: what is shown for a metric (change, hover base value, axis range)
\* depends only on its own points: two metrics of a run that have the same
\* points are shown the same values wherever they stand in the loops, and
\* the core panel and the detail card agree on a metric's latest value and
\* percent change.
C9_OwnSeriesOnly ==
    /\ \A a, b \in DOMAIN cardOut :
         PointsOf(a) = PointsOf(b) => CardShown(cardOut[a]) = CardShown(cardOut[b])
    /\ \A a, b \in DOMAIN coreOut :
         PointsOf(a) = PointsOf(b) => CoreShown(coreOut[a]) = CoreShown(coreOut[b])
    /\ \A a \in DOMAIN coreOut, b \in DOMAIN cardOut :
         PointsOf(a) = PointsOf(b) =>
            CoreShown(coreOut[a]) = <<cardOut[b].current, cardOut[b].change_pct>>

\* two cards of one-point series with the same points, computed while the
\* name previous held different values
C9_Witness ==
    \E a, b \in DOMAIN cardOut :
        /\ a # b
        /\ PointsOf(a) = PointsOf(b)
        /\ Len(PointsOf(a)) = 1
        /\ cardOut[a].previous # cardOut[b].previous
        /\ cardOut[a].base_value = PointsOf(a)[1]
        /\ cardOut[b].base_value = PointsOf(b)[1]

====
